---- MODULE Spec2Model ----
(***************************************************************************)
(* types_linq.more.MoreEnumerable: the deferred sequence operators         *)
(* (except_by, distinct_by, flatten, flatten2, interleave,                 *)
(* traverse_breath_first, traverse_depth_first), the eager right fold      *)
(* aggregate_right, and the CachedEnumerable that as_cached returns.       *)
(*                                                                         *)
(* A deferred operator is a closure `inner` wrapped in a MoreEnumerable;   *)
(* iter() on it calls inner() and gets a generator, and every next() on    *)
(* the generator runs inner's body up to its next yield.  A cursor of the  *)
(* model is one such generator: its locals, its position ("fresh" before   *)
(* the first next(), "suspended" at a yield, "done" after StopIteration)   *)
(* and the elements it has yielded.                                        *)
(***************************************************************************)
EXTENDS Integers, Sequences, FiniteSets, TLC

\* Longest receiver / iters sequence enumerated.
MaxLen == 3
\* Most nodes of a tree handed to a traversal.
MaxNodes == 5
\* Most nodes of a nested structure handed to flatten2, the receiver included.
MaxNested == 4

\* Element values of the flat sequences.
Values == {1, 2, 3}
\* The generators obtained from one returned sequence.
Cursors == {1, 2}

SeqUpTo(S, n) == UNION {[1..k -> S] : k \in 0..n}

RECURSIVE Reverse(_)
Reverse(s) == IF s = <<>> THEN <<>> ELSE Append(Reverse(Tail(s)), Head(s))

Front(s) == SubSeq(s, 1, Len(s) - 1)

Last(s) == s[Len(s)]

RemoveAt(s, j) == SubSeq(s, 1, j - 1) \o SubSeq(s, j + 1, Len(s))

RECURSIVE SetToSeq(_)
SetToSeq(S) ==
    IF S = {} THEN <<>>
    ELSE LET m == CHOOSE x \in S : \A y \in S : x <= y
         IN  <<m>> \o SetToSeq(S \ {m})

IsPrefix(s, t) == Len(s) <= Len(t) /\ SubSeq(t, 1, Len(s)) = s

VARIABLES
    op,            \* the operator under exercise
    source,        \* the elements of the receiver (self)
    second,        \* except_by's second
    key_selector,  \* except_by's key_selector, by name
    iters,         \* interleave's *iters
    children,      \* node -> its children (children_selector / nested iterables)
    selector,      \* flatten2: the elements for which selector returns an iterable
    kind,          \* flatten: node -> "atom" | "list" | "str"
    predicate,     \* flatten: the iterables for which predicate returns True
    nargs,         \* len(args) of flatten / aggregate_right
    built,         \* the operator has returned its MoreEnumerable
    cur,           \* cursor -> [status, out, loc]
    pulls,         \* next() calls made on the receiver, second, iters, nested iterables
    calls,         \* calls made to key_selector / selector / children_selector
    ret,           \* aggregate_right: how the call ended
    funcCalls,     \* aggregate_right: the calls made to func, in order
    buffer,        \* CachedEnumerable: the elements pulled from the source so far
    complete,      \* CachedEnumerable: the source was found exhausted
    produced,      \* CachedEnumerable: elements the source has produced
    queries,       \* CachedEnumerable: next() calls made on the source
    lock,          \* CachedEnumerable: the reader in the append section, or 0
    reader         \* CachedEnumerable: reader -> [pc, pos, out]

aggVars == <<ret, funcCalls>>

cacheVars == <<buffer, complete, produced, queries, lock, reader>>

vars == <<op, source, second, key_selector, iters, children, selector, kind,
          predicate, nargs, built, cur, pulls, calls, aggVars, cacheVars>>

inputs == <<op, source, second, key_selector, iters, children, selector, kind,
            predicate, nargs>>

NoLocals == [started |-> FALSE]

NoCursor == [status |-> "none", out |-> <<>>, loc |-> NoLocals]

\* key_selector(x): the selectors enumerated are the identity and the parity.
KeySelector(x) == IF key_selector = "identity" THEN x ELSE x % 2

----------------------------------------------------------------------------
(* except_by / distinct_by *)

\* except_by.inner's loop without `s.add(key)`.
RECURSIVE ExceptByLoopNoAdd(_, _, _, _)
ExceptByLoopNoAdd(s, pos, p, k) ==
    IF pos >= Len(source)
    THEN [yield |-> FALSE, elem |-> 0, loc |-> [s |-> s, pos |-> pos],
          pulls |-> p + 1, calls |-> k]
    ELSE LET elem == source[pos + 1]
             key  == KeySelector(elem)
         IN  IF key \in s
             THEN ExceptByLoopNoAdd(s, pos + 1, p + 1, k + 1)
             ELSE [yield |-> TRUE, elem |-> elem,
                   loc |-> [s |-> s, pos |-> pos + 1],
                   pulls |-> p + 1, calls |-> k + 1]

\* The loop `for elem in self` of except_by.inner from position pos with the
\* seen-key set s; p and k count the next() and key_selector calls made.
RECURSIVE ExceptByLoop(_, _, _, _)
ExceptByLoop(s, pos, p, k) ==
    IF pos >= Len(source)
    THEN [yield |-> FALSE, elem |-> 0, loc |-> [s |-> s, pos |-> pos],
          pulls |-> p + 1, calls |-> k]
    ELSE LET elem == source[pos + 1]
             key  == KeySelector(elem)
         IN  IF key \in s
             THEN ExceptByLoop(s, pos + 1, p + 1, k + 1)
             ELSE [yield |-> TRUE, elem |-> elem,
                   loc |-> [s |-> s \cup {key}, pos |-> pos + 1],
                   pulls |-> p + 1, calls |-> k + 1]

\* One next() on a generator of except_by.inner.
ExceptByGen(status, loc) ==
    IF status = "fresh"
    THEN ExceptByLoop({KeySelector(second[j]) : j \in 1..Len(second)}, 0,
                      Len(second) + 1, Len(second))
    ELSE ExceptByLoop(loc.s, loc.pos, 0, 0)

----------------------------------------------------------------------------
(* interleave *)

\* The receiver followed by iters: its[k] of interleave.inner iterates
\* Inputs[k + 1].
Inputs == <<source>> \o iters

\* interleave.inner running `i += 1` after `its.pop(i)` too.
RECURSIVE InterleaveLoopSkip(_, _, _)
InterleaveLoopSkip(its, i, p) ==
    IF its = <<>>
    THEN [yield |-> FALSE, elem |-> 0, loc |-> [its |-> its, i |-> i],
          pulls |-> p, calls |-> 0]
    ELSE IF i >= Len(its)
    THEN InterleaveLoopSkip(its, 0, p)
    ELSE LET it == its[i + 1]
         IN  IF it.pos < Len(Inputs[it.src])
             THEN [yield |-> TRUE, elem |-> Inputs[it.src][it.pos + 1],
                   loc |-> [its |-> [its EXCEPT ![i + 1].pos = @ + 1], i |-> i],
                   pulls |-> p + 1, calls |-> 0]
             ELSE InterleaveLoopSkip(RemoveAt(its, i + 1), i + 1, p + 1)

\* The loops of interleave.inner with the live iterators its and the index i;
\* an iterator is [src, pos]: pos elements of Inputs[src] consumed.
RECURSIVE InterleaveLoop(_, _, _)
InterleaveLoop(its, i, p) ==
    IF its = <<>>
    THEN [yield |-> FALSE, elem |-> 0, loc |-> [its |-> its, i |-> i],
          pulls |-> p, calls |-> 0]
    ELSE IF i >= Len(its)
    THEN InterleaveLoop(its, 0, p)
    ELSE LET it == its[i + 1]
         IN  IF it.pos < Len(Inputs[it.src])
             THEN [yield |-> TRUE, elem |-> Inputs[it.src][it.pos + 1],
                   loc |-> [its |-> [its EXCEPT ![i + 1].pos = @ + 1], i |-> i],
                   pulls |-> p + 1, calls |-> 0]
             ELSE InterleaveLoop(RemoveAt(its, i + 1), i, p + 1)

\* One next() on a generator of interleave.inner; a resumed generator first
\* runs the `i += 1` that follows the yield.
InterleaveGen(status, loc) ==
    IF status = "fresh"
    THEN InterleaveLoop([k \in 1..Len(Inputs) |-> [src |-> k, pos |-> 0]], 0, 0)
    ELSE InterleaveLoop(loc.its, loc.i + 1, 0)

----------------------------------------------------------------------------
(* flatten / flatten2 *)

\* selector(elem): None, or the iterable nested in elem.
Selector(elem) ==
    IF elem \in selector
    THEN [isNone |-> FALSE, items |-> children[elem]]
    ELSE [isNone |-> TRUE, items |-> <<>>]

\* The loops of flatten2.inner; an iterator is [items, idx]: idx elements of
\* items consumed.  FlattenInner is `while True` with the current iterator it,
\* FlattenOuter is `while stack`.
RECURSIVE FlattenInner(_, _, _, _)
RECURSIVE FlattenOuter(_, _, _, _)
FlattenInner(stack, it, p, k) ==
    IF it.idx >= Len(it.items)
    THEN FlattenOuter(stack, it, p + 1, k)
    ELSE LET elem   == it.items[it.idx + 1]
             it2    == [it EXCEPT !.idx = @ + 1]
             nested == Selector(elem)
         IN  IF ~nested.isNone
             THEN FlattenInner(Append(stack, it2),
                               [items |-> nested.items, idx |-> 0], p + 1, k + 1)
             ELSE [yield |-> TRUE, elem |-> elem,
                   loc |-> [stack |-> stack, it |-> it2],
                   pulls |-> p + 1, calls |-> k + 1]

FlattenOuter(stack, it, p, k) ==
    IF stack = <<>>
    THEN [yield |-> FALSE, elem |-> 0, loc |-> [stack |-> stack, it |-> it],
          pulls |-> p, calls |-> k]
    ELSE FlattenInner(Front(stack), Last(stack), p, k)

\* flatten2.inner entering a nested iterable without `stack.append(it)`.
Flatten2GenNoPush(status, loc) ==
    LET RECURSIVE Inner(_, _, _, _)
        Inner(stack, it, p, k) ==
            IF it.idx >= Len(it.items)
            THEN FlattenOuter(stack, it, p + 1, k)
            ELSE LET elem   == it.items[it.idx + 1]
                     it2    == [it EXCEPT !.idx = @ + 1]
                     nested == Selector(elem)
                 IN  IF ~nested.isNone
                     THEN Inner(stack, [items |-> nested.items, idx |-> 0],
                                p + 1, k + 1)
                     ELSE [yield |-> TRUE, elem |-> elem,
                           loc |-> [stack |-> stack, it |-> it2],
                           pulls |-> p + 1, calls |-> k + 1]
    IN  IF status = "fresh"
        THEN Inner(<<>>, [items |-> source, idx |-> 0], 0, 0)
        ELSE Inner(loc.stack, loc.it, 0, 0)

\* One next() on a generator of flatten2.inner.
Flatten2Gen(status, loc) ==
    IF status = "fresh"
    THEN FlattenOuter(<<[items |-> source, idx |-> 0]>>,
                      [items |-> <<>>, idx |-> 0], 0, 0)
    ELSE FlattenInner(loc.stack, loc.it, 0, 0)

----------------------------------------------------------------------------
(* traverse_breath_first / traverse_depth_first *)

root == 1

\* traverse_breath_first.inner taking `queue.pop()` for `queue.popleft()`.
BreathFirstLoopPopRight(queue, expanded, p, k) ==
    IF queue = <<>>
    THEN [yield |-> FALSE, elem |-> 0,
          loc |-> [queue |-> queue, elem |-> 0, expanded |-> expanded],
          pulls |-> p, calls |-> k]
    ELSE [yield |-> TRUE, elem |-> Last(queue),
          loc |-> [queue |-> Front(queue), elem |-> Last(queue),
                   expanded |-> expanded],
          pulls |-> p, calls |-> k]

\* `while queue` of traverse_breath_first.inner; expanded lists the nodes
\* children_selector has been called with.
BreathFirstLoop(queue, expanded, p, k) ==
    IF queue = <<>>
    THEN [yield |-> FALSE, elem |-> 0,
          loc |-> [queue |-> queue, elem |-> 0, expanded |-> expanded],
          pulls |-> p, calls |-> k]
    ELSE [yield |-> TRUE, elem |-> Head(queue),
          loc |-> [queue |-> Tail(queue), elem |-> Head(queue),
                   expanded |-> expanded],
          pulls |-> p, calls |-> k]

\* One next() on a generator of traverse_breath_first.inner; a resumed
\* generator first appends the children of the element it yielded.
BreathFirstGen(status, loc) ==
    IF status = "fresh"
    THEN BreathFirstLoop(<<root>>, <<>>, 0, 0)
    ELSE BreathFirstLoop(loc.queue \o children[loc.elem],
                         Append(loc.expanded, loc.elem),
                         Len(children[loc.elem]) + 1, 1)

\* `while stack` of traverse_depth_first.inner.
DepthFirstLoop(stack, expanded, p, k) ==
    IF stack = <<>>
    THEN [yield |-> FALSE, elem |-> 0,
          loc |-> [stack |-> stack, elem |-> 0, expanded |-> expanded],
          pulls |-> p, calls |-> k]
    ELSE [yield |-> TRUE, elem |-> Last(stack),
          loc |-> [stack |-> Front(stack), elem |-> Last(stack),
                   expanded |-> expanded],
          pulls |-> p, calls |-> k]

\* traverse_depth_first.inner pushing the children without `reversed`.
DepthFirstGenUnreversed(status, loc) ==
    IF status = "fresh"
    THEN DepthFirstLoop(<<root>>, <<>>, 0, 0)
    ELSE DepthFirstLoop(loc.stack \o children[loc.elem],
                        Append(loc.expanded, loc.elem),
                        Len(children[loc.elem]) + 1, 1)

\* One next() on a generator of traverse_depth_first.inner; a resumed
\* generator first pushes the children of the element it yielded, reversed.
DepthFirstGen(status, loc) ==
    IF status = "fresh"
    THEN DepthFirstLoop(<<root>>, <<>>, 0, 0)
    ELSE DepthFirstLoop(loc.stack \o Reverse(children[loc.elem]),
                        Append(loc.expanded, loc.elem),
                        Len(children[loc.elem]) + 1, 1)

----------------------------------------------------------------------------
(* the cursor protocol *)

\* The effect of one next() whose outcome is r on cursor c.
Resume(c, r) ==
    /\ cur' = [cur EXCEPT ![c] =
                  [status |-> IF r.yield THEN "suspended" ELSE "done",
                   out    |-> IF r.yield THEN Append(@.out, r.elem) ELSE @.out,
                   loc    |-> r.loc]]
    /\ pulls' = pulls + r.pulls
    /\ calls' = calls + r.calls
    /\ UNCHANGED <<inputs, built, aggVars, cacheVars>>

Running(c) == built /\ cur[c].status \in {"fresh", "suspended"}

\* except_by building the seen-key set of `second` in its own body, before
\* inner is ever called.
ExceptByEager ==
    /\ op = "except_by"
    /\ ~built
    /\ built' = TRUE
    /\ pulls' = pulls + Len(second) + 1
    /\ calls' = calls + Len(second)
    /\ UNCHANGED <<inputs, cur, aggVars, cacheVars>>

\* self.except_by(second, key_selector)
ExceptBy ==
    /\ op = "except_by"
    /\ ~built
    /\ built' = TRUE
    /\ UNCHANGED <<inputs, cur, pulls, calls, aggVars, cacheVars>>

\* self.distinct_by(key_selector) == self.except_by((), key_selector)
DistinctBy ==
    /\ op = "distinct_by"
    /\ ~built
    /\ built' = TRUE
    /\ second' = <<>>
    /\ UNCHANGED <<op, source, key_selector, iters, children, selector, kind,
                   predicate, nargs, cur, pulls, calls, aggVars, cacheVars>>

\* iter(seq): Enumerable.__iter__ calls the factory; the generator is created
\* and none of its body runs.
Iterate(c) ==
    /\ built
    /\ cur[c].status = "none"
    /\ cur' = [cur EXCEPT ![c].status = "fresh"]
    /\ UNCHANGED <<inputs, built, pulls, calls, aggVars, cacheVars>>

\* except_by.inner with one seen-key set shared by all its generators.
ExceptByNextSharedSeen(c) ==
    /\ op \in {"except_by", "distinct_by"}
    /\ Running(c)
    /\ LET started == {d \in Cursors : cur[d].status \in {"suspended", "done"}}
           shared  == UNION {cur[d].loc.s : d \in started}
       IN  Resume(c, IF cur[c].status = "fresh"
                     THEN ExceptByLoop(shared \cup {KeySelector(second[j]) :
                                                       j \in 1..Len(second)},
                                       0, Len(second) + 1, Len(second))
                     ELSE ExceptByLoop(shared, cur[c].loc.pos, 0, 0))

ExceptByNext(c) ==
    /\ op \in {"except_by", "distinct_by"}
    /\ Running(c)
    /\ Resume(c, ExceptByGen(cur[c].status, cur[c].loc))

\* self.flatten(*args): flatten2 with the selector
\* lambda x: x if isinstance(x, Iterable) and predicate(x) else None,
\* where predicate defaults to lambda x: not isinstance(x, str).
Flatten ==
    /\ op = "flatten"
    /\ ~built
    /\ built' = TRUE
    /\ LET pred == IF nargs = 0
                   THEN {x \in DOMAIN kind : kind[x] # "str"}
                   ELSE predicate
       IN  /\ predicate' = pred
           /\ selector' = {x \in DOMAIN kind :
                              kind[x] \in {"list", "str"} /\ x \in pred}
    /\ UNCHANGED <<op, source, second, key_selector, iters, children, kind,
                   nargs, cur, pulls, calls, aggVars, cacheVars>>

\* self.flatten2(selector)
Flatten2 ==
    /\ op = "flatten2"
    /\ ~built
    /\ built' = TRUE
    /\ UNCHANGED <<inputs, cur, pulls, calls, aggVars, cacheVars>>

\* self.interleave(*iters)
Interleave ==
    /\ op = "interleave"
    /\ ~built
    /\ built' = TRUE
    /\ UNCHANGED <<inputs, cur, pulls, calls, aggVars, cacheVars>>

\* MoreEnumerable.traverse_breath_first(root, children_selector)
TraverseBreathFirst ==
    /\ op = "traverse_breath_first"
    /\ ~built
    /\ built' = TRUE
    /\ UNCHANGED <<inputs, cur, pulls, calls, aggVars, cacheVars>>

\* MoreEnumerable.traverse_depth_first(root, children_selector)
TraverseDepthFirst ==
    /\ op = "traverse_depth_first"
    /\ ~built
    /\ built' = TRUE
    /\ UNCHANGED <<inputs, cur, pulls, calls, aggVars, cacheVars>>

Flatten2Next(c) ==
    /\ op \in {"flatten", "flatten2"}
    /\ Running(c)
    /\ Resume(c, Flatten2Gen(cur[c].status, cur[c].loc))

InterleaveNext(c) ==
    /\ op = "interleave"
    /\ Running(c)
    /\ Resume(c, InterleaveGen(cur[c].status, cur[c].loc))

BreathFirstNext(c) ==
    /\ op = "traverse_breath_first"
    /\ Running(c)
    /\ Resume(c, BreathFirstGen(cur[c].status, cur[c].loc))

DepthFirstNext(c) ==
    /\ op = "traverse_depth_first"
    /\ Running(c)
    /\ Resume(c, DepthFirstGen(cur[c].status, cur[c].loc))

----------------------------------------------------------------------------
(* aggregate_right *)

\* Values are terms in prefix form, so that the result shows every call made:
\* an element or the seed is a one-entry sequence, func(x, y) is -1 followed by
\* x and y, and a caller's result_selector(x) is -2 followed by x.
Seed == <<0>>

Func(x, y) == <<-1>> \o x \o y

\* result_selector: the caller's with three arguments, lambda x: x otherwise.
ResultSelector(x) == IF nargs = 3 THEN <<-2>> \o x ELSE x

\* self.reverse(): the elements of the receiver, last to first.
SelfReverse == Reverse(source)

\* self._raise_empty_sequence()
RaiseEmptySequence == [status |-> "raised", fault |-> "empty_sequence", value |-> <<>>]

NotCalled == [status |-> "not_called", fault |-> "none", value |-> <<>>]

\* The fold calling func(seed, elem).
RECURSIVE FoldLoopSwapped(_, _, _)
FoldLoopSwapped(it, seed, log) ==
    IF it = <<>>
    THEN [seed |-> seed, log |-> log]
    ELSE FoldLoopSwapped(Tail(it), Func(seed, <<Head(it)>>),
                         Append(log, [elem |-> seed, acc |-> <<Head(it)>>]))

\* `for elem in it: seed = func(elem, seed)`; log lists the calls of func.
RECURSIVE FoldLoop(_, _, _)
FoldLoop(it, seed, log) ==
    IF it = <<>>
    THEN [seed |-> seed, log |-> log]
    ELSE FoldLoop(Tail(it), Func(<<Head(it)>>, seed),
                  Append(log, [elem |-> <<Head(it)>>, acc |-> seed]))

\* aggregate_right passing over the StopIteration of an empty source: the
\* unbound `seed` then fails at `return result_selector(seed)`.
AggregateRightCallNoRaise(n) ==
    LET it == SelfReverse
    IN  IF n = 1 /\ it = <<>>
        THEN [ret |-> [status |-> "raised", fault |-> "unbound_local", value |-> <<>>],
              log |-> <<>>]
        ELSE LET r == IF n = 1
                      THEN FoldLoop(Tail(it), <<Head(it)>>, <<>>)
                      ELSE FoldLoop(it, Seed, <<>>)
             IN  [ret |-> [status |-> "returned", fault |-> "none",
                           value |-> ResultSelector(r.seed)],
                  log |-> r.log]

\* self.aggregate_right(*args) with len(args) = n: how it ends and the calls
\* of func it makes.
AggregateRightCall(n) ==
    LET it == SelfReverse
    IN  IF n = 1 /\ it = <<>>
        THEN [ret |-> RaiseEmptySequence, log |-> <<>>]
        ELSE LET r == IF n = 1
                      THEN FoldLoop(Tail(it), <<Head(it)>>, <<>>)
                      ELSE FoldLoop(it, Seed, <<>>)
             IN  [ret |-> [status |-> "returned", fault |-> "none",
                           value |-> ResultSelector(r.seed)],
                  log |-> r.log]

AggregateRight ==
    /\ op = "aggregate_right"
    /\ ret.status = "not_called"
    /\ ret' = AggregateRightCall(nargs).ret
    /\ funcCalls' = AggregateRightCall(nargs).log
    /\ UNCHANGED <<inputs, built, cur, pulls, calls, cacheVars>>

----------------------------------------------------------------------------
(* CachedEnumerable (as_cached) *)

\* Threads of control, each advancing a cursor of its own.
NumReaders == 3

Readers == 1..NumReaders

NewReader == [pc |-> "idle", pos |-> 0, out |-> <<>>]

\* A reader advances its cursor: a buffered position is read without
\* exclusion; at the end of a complete buffer the cursor reports exhaustion;
\* otherwise the reader goes for the append section.
CachedAdvance(r) ==
    /\ op = "as_cached"
    /\ reader[r].pc = "idle"
    /\ reader' = [reader EXCEPT ![r] =
          IF @.pos < Len(buffer)
          THEN [pc |-> "idle", pos |-> @.pos + 1, out |-> Append(@.out, buffer[@.pos + 1])]
          ELSE IF complete
          THEN [@ EXCEPT !.pc = "done"]
          ELSE [@ EXCEPT !.pc = "waiting"]]
    /\ UNCHANGED <<inputs, built, cur, pulls, calls, aggVars, buffer, complete,
                   produced, queries, lock>>

\* The append section is entered by one reader at a time.
CachedAcquire(r) ==
    /\ op = "as_cached"
    /\ reader[r].pc = "waiting"
    /\ lock = 0
    /\ lock' = r
    /\ reader' = [reader EXCEPT ![r].pc = "appending"]
    /\ UNCHANGED <<inputs, built, cur, pulls, calls, aggVars, buffer, complete,
                   produced, queries>>

\* The append section entered for position pos without looking at the buffer
\* again: the source is pulled whatever happened while the reader waited.
CachedPullUnchecked(pos) ==
    IF produced < Len(source)
    THEN [buffer |-> Append(buffer, source[produced + 1]), complete |-> FALSE,
          produced |-> produced + 1, queries |-> queries + 1,
          end |-> FALSE, elem |-> source[produced + 1]]
    ELSE [buffer |-> buffer, complete |-> TRUE, produced |-> produced,
          queries |-> queries + 1, end |-> TRUE, elem |-> 0]

\* What a reader at position pos does inside the append section.  When the
\* position was buffered while it waited it takes the buffered element, when
\* the buffer was completed it reports exhaustion, both without a pull;
\* otherwise it pulls one element from the source, appends it and returns it,
\* or finds the source exhausted and marks the buffer complete.
CachedPull(pos) ==
    IF pos < Len(buffer)
    THEN [buffer |-> buffer, complete |-> complete, produced |-> produced,
          queries |-> queries, end |-> FALSE, elem |-> buffer[pos + 1]]
    ELSE IF complete
    THEN [buffer |-> buffer, complete |-> complete, produced |-> produced,
          queries |-> queries, end |-> TRUE, elem |-> 0]
    ELSE IF produced < Len(source)
    THEN [buffer |-> Append(buffer, source[produced + 1]), complete |-> FALSE,
          produced |-> produced + 1, queries |-> queries + 1,
          end |-> FALSE, elem |-> source[produced + 1]]
    ELSE [buffer |-> buffer, complete |-> TRUE, produced |-> produced,
          queries |-> queries + 1, end |-> TRUE, elem |-> 0]

\* The reader in the append section completes its advance and leaves.
CachedFill(r) ==
    /\ op = "as_cached"
    /\ reader[r].pc = "appending"
    /\ lock = r
    /\ LET f == CachedPull(reader[r].pos)
       IN  /\ buffer' = f.buffer
           /\ complete' = f.complete
           /\ produced' = f.produced
           /\ queries' = f.queries
           /\ reader' = [reader EXCEPT ![r] =
                 IF f.end
                 THEN [@ EXCEPT !.pc = "done"]
                 ELSE [pc |-> "idle", pos |-> @.pos + 1, out |-> Append(@.out, f.elem)]]
    /\ lock' = 0
    /\ UNCHANGED <<inputs, built, cur, pulls, calls, aggVars>>

----------------------------------------------------------------------------
(* inputs *)

RECURSIVE ReachesRoot(_, _, _)
ReachesRoot(parent, x, fuel) ==
    IF x = root THEN TRUE
    ELSE IF fuel = 0 THEN FALSE
    ELSE ReachesRoot(parent, parent[x], fuel - 1)

\* The trees on the nodes 1..n rooted at 1, as children maps: every parent map
\* that reaches the root, its children listed in ascending or descending order.
Trees(n) ==
    LET parents == {p \in [2..n -> 1..n] : \A x \in 2..n : ReachesRoot(p, x, n)}
        kids(p, x) == SetToSeq({y \in 2..n : p[y] = x})
    IN  {[x \in 1..n |-> IF desc THEN Reverse(kids(p, x)) ELSE kids(p, x)] :
            p \in parents, desc \in BOOLEAN}

TreesUpTo(n) == UNION {Trees(k) : k \in 1..n}

\* The i-th sequence handed to interleave holds 10*i + 1, 10*i + 2, ...: every
\* element names its sequence and its place.
Tagged(i, len) == [j \in 1..len |-> 10 * i + j]

InitExceptBy ==
    /\ op = "except_by"
    /\ source \in SeqUpTo(Values, MaxLen)
    /\ second \in SeqUpTo({1, 2}, MaxLen - 1)
    /\ key_selector \in {"identity", "parity"}
    /\ iters = <<>> /\ children = <<>> /\ selector = {} /\ kind = <<>>
    /\ predicate = {} /\ nargs = 0

InitDistinctBy ==
    /\ op = "distinct_by"
    /\ source \in SeqUpTo(Values, MaxLen) \cup {<<3, 1, 3, 2, 1>>}
    /\ second = <<>>
    /\ key_selector \in {"identity", "parity"}
    /\ iters = <<>> /\ children = <<>> /\ selector = {} /\ kind = <<>>
    /\ predicate = {} /\ nargs = 0

\* The receiver is the node 1 of a nested structure: its elements are 1's
\* children, and the iterable nested in an element holds that node's children.
InitFlatten2 ==
    /\ op = "flatten2"
    /\ children \in TreesUpTo(MaxNested)
    /\ source = children[root]
    /\ selector \in SUBSET (DOMAIN children \ {root})
    /\ second = <<>> /\ key_selector = "identity" /\ iters = <<>>
    /\ kind = <<>> /\ predicate = {} /\ nargs = 0

\* flatten: an element with children is a list, one without is an atom, an
\* empty list or an empty str (a str with characters that predicate accepts
\* never stops flattening: each character is a str again).
InitFlatten ==
    /\ op = "flatten"
    /\ children \in TreesUpTo(MaxNested - 1)
    /\ source = children[root]
    /\ kind \in {f \in [DOMAIN children -> {"atom", "list", "str"}] :
                    \A x \in DOMAIN children :
                        (children[x] # <<>> \/ x = root) => f[x] = "list"}
    /\ nargs \in {0, 1}
    /\ predicate \in IF nargs = 0 THEN {{}} ELSE SUBSET (DOMAIN children \ {root})
    /\ selector = {}
    /\ second = <<>> /\ key_selector = "identity" /\ iters = <<>>

InitInterleave ==
    /\ op = "interleave"
    /\ \E n \in 0..2 : \E lens \in [0..n -> 0..MaxLen] :
          /\ source = Tagged(0, lens[0])
          /\ iters = [i \in 1..n |-> Tagged(i, lens[i])]
    /\ second = <<>> /\ key_selector = "identity" /\ children = <<>>
    /\ selector = {} /\ kind = <<>> /\ predicate = {} /\ nargs = 0

InitTraverse ==
    /\ op \in {"traverse_breath_first", "traverse_depth_first"}
    /\ children \in TreesUpTo(MaxNodes)
    /\ source = <<>> /\ second = <<>> /\ key_selector = "identity"
    /\ iters = <<>> /\ selector = {} /\ kind = <<>> /\ predicate = {}
    /\ nargs = 0

LazyIdle ==
    /\ built = FALSE
    /\ cur = [c \in Cursors |-> NoCursor]
    /\ pulls = 0
    /\ calls = 0

AggregateIdle ==
    /\ ret = NotCalled
    /\ funcCalls = <<>>

CachedIdle ==
    /\ buffer = <<>>
    /\ complete = FALSE
    /\ produced = 0
    /\ queries = 0
    /\ lock = 0
    /\ reader = [r \in Readers |-> NewReader]

Init ==
    /\ \/ InitExceptBy
       \/ InitDistinctBy
       \/ InitFlatten
       \/ InitFlatten2
       \/ InitInterleave
       \/ InitTraverse
    /\ LazyIdle
    /\ AggregateIdle
    /\ CachedIdle

Next ==
    \/ ExceptBy
    \/ DistinctBy
    \/ Flatten
    \/ Flatten2
    \/ Interleave
    \/ TraverseBreathFirst
    \/ TraverseDepthFirst
    \/ \E c \in Cursors : Iterate(c)
    \/ \E c \in Cursors : ExceptByNext(c)
    \/ \E c \in Cursors : Flatten2Next(c)
    \/ \E c \in Cursors : InterleaveNext(c)
    \/ \E c \in Cursors : BreathFirstNext(c)
    \/ \E c \in Cursors : DepthFirstNext(c)

\* The deferred operators, each sequence iterated by two cursors.
Spec == Init /\ [][Next]_vars

InitAggregate ==
    /\ op = "aggregate_right"
    /\ source \in SeqUpTo(Values, MaxLen)
    /\ nargs \in {1, 2, 3}
    /\ second = <<>> /\ key_selector = "identity" /\ iters = <<>>
    /\ children = <<>> /\ selector = {} /\ kind = <<>> /\ predicate = {}
    /\ LazyIdle
    /\ AggregateIdle
    /\ CachedIdle

NextAggregate == AggregateRight

\* aggregate_right, called once.
SpecAggregate == InitAggregate /\ [][NextAggregate]_vars

InitCached ==
    /\ op = "as_cached"
    /\ source \in {Tagged(0, m) : m \in 0..MaxLen}
    /\ nargs = 0
    /\ second = <<>> /\ key_selector = "identity" /\ iters = <<>>
    /\ children = <<>> /\ selector = {} /\ kind = <<>> /\ predicate = {}
    /\ LazyIdle
    /\ AggregateIdle
    /\ CachedIdle

NextCached ==
    \/ \E r \in Readers : CachedAdvance(r)
    \/ \E r \in Readers : CachedAcquire(r)
    \/ \E r \in Readers : CachedFill(r)

\* One CachedEnumerable read by NumReaders threads of control.
SpecCached == InitCached /\ [][NextCached]_vars

----------------------------------------------------------------------------
(* laziness and independence of the cursors *)

\* C1: calling except_by, distinct_by, flatten, flatten2, interleave,
\* traverse_breath_first or traverse_depth_first only constructs the sequence:
\* as long as no cursor of it has been advanced, no next() has been made on
\* the receiver, second or iters and no selector has been called.
C1_ConstructionIsLazy ==
    (\A c \in Cursors : cur[c].status \in {"none", "fresh"})
        => pulls = 0 /\ calls = 0

\* The sequence is built from a non-empty receiver and a non-empty second, and
\* both its cursors exist, neither advanced yet.
C1_Witness ==
    /\ op = "except_by"
    /\ built
    /\ source # <<>>
    /\ second # <<>>
    /\ \A c \in Cursors : cur[c].status = "fresh"

\* One next() on a generator of the operator under exercise.
Gen(status, loc) ==
    CASE op \in {"except_by", "distinct_by"} -> ExceptByGen(status, loc)
      [] op \in {"flatten", "flatten2"}      -> Flatten2Gen(status, loc)
      [] op = "interleave"                   -> InterleaveGen(status, loc)
      [] op = "traverse_breath_first"        -> BreathFirstGen(status, loc)
      [] op = "traverse_depth_first"         -> DepthFirstGen(status, loc)

\* What a generator yields when it is the only one and is run to its end.
RECURSIVE Drain(_, _, _)
Drain(status, loc, out) ==
    LET r == Gen(status, loc)
    IN  IF r.yield THEN Drain("suspended", r.loc, Append(out, r.elem)) ELSE out

Solo == Drain("fresh", NoLocals, <<>>)

\* C2: two cursors of one sequence returned by except_by / distinct_by,
\* interleave or flatten2, advanced in any interleaving, each yield what a
\* lone traversal yields: at every moment a prefix of it, and all of it (so
\* the same count) once the cursor is exhausted.
C2_CursorsIndependent ==
    op \in {"except_by", "distinct_by", "interleave", "flatten2"} =>
        \A c \in Cursors :
            /\ IsPrefix(cur[c].out, Solo)
            /\ cur[c].status = "done" => cur[c].out = Solo

\* One except_by cursor has run to its end and yielded two elements or more
\* while the other, advanced in between, was left after its first element.
C2_Witness ==
    /\ op = "except_by"
    /\ cur[1].status = "done"
    /\ Len(cur[1].out) >= 2
    /\ cur[2].status = "suspended"
    /\ Len(cur[2].out) = 1

----------------------------------------------------------------------------
(* except_by / distinct_by *)

\* The positions of the receiver whose key is the key of no element of second
\* and of no earlier element of the receiver.
KeptPositions ==
    {j \in 1..Len(source) :
        /\ \A i \in 1..Len(second) : KeySelector(second[i]) # KeySelector(source[j])
        /\ \A i \in 1..(j - 1) : KeySelector(source[i]) # KeySelector(source[j])}

ExceptByResult ==
    LET kept == SetToSeq(KeptPositions)
    IN  [n \in 1..Len(kept) |-> source[kept[n]]]

\* C4: except_by yields, in source order, exactly the elements of the receiver
\* whose key is the key of no element of second and of no earlier element of
\* the receiver; no two yielded elements share a key; distinct_by of
\* [3,1,3,2,1] by identity yields [3,1,2].
C4_ExceptByResult ==
    op \in {"except_by", "distinct_by"} =>
        \A c \in Cursors :
            LET out == cur[c].out
            IN  /\ IsPrefix(out, ExceptByResult)
                /\ cur[c].status = "done" => out = ExceptByResult
                /\ \A i, j \in 1..Len(out) :
                      i # j => KeySelector(out[i]) # KeySelector(out[j])
                /\ (/\ op = "distinct_by"
                    /\ source = <<3, 1, 3, 2, 1>>
                    /\ key_selector = "identity"
                    /\ cur[c].status = "done") => out = <<3, 1, 2>>

\* distinct_by of [3,1,3,2,1] by identity has been traversed to its end.
C4_Witness ==
    /\ op = "distinct_by"
    /\ source = <<3, 1, 3, 2, 1>>
    /\ key_selector = "identity"
    /\ cur[1].status = "done"
    /\ cur[1].out = <<3, 1, 2>>

----------------------------------------------------------------------------
(* the tree traversals *)

Range(s) == {s[i] : i \in 1..Len(s)}

\* The place of x in a sequence that holds it.
Place(s, x) == CHOOSE i \in 1..Len(s) : s[i] = x

Occurrences(s, x) == Cardinality({i \in 1..Len(s) : s[i] = x})

\* x and all its descendants.
RECURSIVE Subtree(_)
Subtree(x) == {x} \cup UNION {Subtree(children[x][i]) : i \in 1..Len(children[x])}

\* Pre-order: a node, then the pre-order of each of its children in turn.
RECURSIVE PreOrder(_)
RECURSIVE PreOrderAll(_)
PreOrder(x) == <<x>> \o PreOrderAll(children[x])

PreOrderAll(xs) ==
    IF xs = <<>> THEN <<>> ELSE PreOrder(Head(xs)) \o PreOrderAll(Tail(xs))

\* C6: traverse_depth_first over a finite tree yields every node exactly once
\* in pre-order: the root first, a node before all its descendants, the whole
\* subtree of an earlier child before any node of a later child; and it ends
\* when, and only when, the stack is empty.
C6_DepthFirstPreOrder ==
    op = "traverse_depth_first" =>
        \A c \in Cursors :
            LET out  == cur[c].out
                loc  == cur[c].loc
                done == cur[c].status = "done"
            IN  /\ IsPrefix(out, PreOrder(root))
                /\ cur[c].status = "suspended" =>
                      /\ out[1] = root
                      /\ DepthFirstGen("suspended", loc).yield
                            <=> (loc.stack \o children[loc.elem] # <<>>)
                /\ done =>
                      /\ out = PreOrder(root)
                      /\ loc.stack = <<>>
                      /\ \A x \in DOMAIN children : Occurrences(out, x) = 1
                      /\ \A x \in DOMAIN children : \A y \in Subtree(x) \ {x} :
                            Place(out, x) < Place(out, y)
                      /\ \A x \in DOMAIN children :
                            \A i, j \in 1..Len(children[x]) :
                                i < j =>
                                    \A a \in Subtree(children[x][i]) :
                                    \A b \in Subtree(children[x][j]) :
                                        Place(out, a) < Place(out, b)

\* A tree whose root has two children or more, the first of them with a child
\* of its own, has been traversed depth-first to the end.
C6_Witness ==
    /\ op = "traverse_depth_first"
    /\ cur[1].status = "done"
    /\ Len(children[root]) >= 2
    /\ children[children[root][1]] # <<>>
    /\ Len(cur[1].out) = Len(children)

RECURSIVE ChildrenOfAll(_)
ChildrenOfAll(xs) ==
    IF xs = <<>> THEN <<>> ELSE children[Head(xs)] \o ChildrenOfAll(Tail(xs))

\* Breadth-first order: a level, then the children of its nodes in turn.
RECURSIVE LevelOrder(_)
LevelOrder(level) ==
    IF level = <<>> THEN <<>> ELSE level \o LevelOrder(ChildrenOfAll(level))

Parent(x) == CHOOSE y \in DOMAIN children : x \in Range(children[y])

RECURSIVE Depth(_)
Depth(x) == IF x = root THEN 0 ELSE 1 + Depth(Parent(x))

\* The calls of children_selector the cursors have made between them.
Expansions ==
    LET n(c) == IF cur[c].status \in {"suspended", "done"}
                THEN Len(cur[c].loc.expanded) ELSE 0
        RECURSIVE sum(_)
        sum(cs) == IF cs = <<>> THEN 0 ELSE n(Head(cs)) + sum(Tail(cs))
    IN  sum(SetToSeq(Cursors))

\* C7: traverse_breath_first over a finite tree yields every node exactly
\* once in breadth-first order: the root first, depths never decreasing, nodes
\* of one depth in the order their parents were yielded and, under one parent,
\* in the order children_selector returned them.  children_selector is called
\* with a node only after the node was yielded, so a cursor that has yielded
\* the root alone has called it zero times.
C7_BreathFirstOrder ==
    op = "traverse_breath_first" =>
        /\ calls = Expansions
        /\ \A c \in Cursors :
            LET out == cur[c].out
                loc == cur[c].loc
            IN  /\ IsPrefix(out, LevelOrder(<<root>>))
                /\ cur[c].status \in {"suspended", "done"} =>
                      /\ out[1] = root
                      /\ \A i \in 1..Len(loc.expanded) :
                            \E j \in 1..Len(out) : out[j] = loc.expanded[i]
                      /\ (cur[c].status = "suspended" /\ out = <<root>>)
                            => loc.expanded = <<>>
                /\ \A i, j \in 1..Len(out) :
                      i < j =>
                          /\ Depth(out[i]) <= Depth(out[j])
                          /\ (Depth(out[i]) = Depth(out[j]) /\ out[i] # root) =>
                                LET pi == Parent(out[i])
                                    pj == Parent(out[j])
                                IN  IF pi = pj
                                    THEN Place(children[pi], out[i])
                                            < Place(children[pi], out[j])
                                    ELSE Place(out, pi) < Place(out, pj)
                /\ cur[c].status = "done" =>
                      /\ out = LevelOrder(<<root>>)
                      /\ \A x \in DOMAIN children : Occurrences(out, x) = 1

\* A tree whose root has two children or more, the first of them with a child
\* of its own (so that breadth-first and pre-order differ), has been traversed
\* breadth-first to the end.
C7_Witness ==
    /\ op = "traverse_breath_first"
    /\ cur[1].status = "done"
    /\ Len(children[root]) >= 2
    /\ children[children[root][1]] # <<>>
    /\ Len(cur[1].out) = Len(children)

----------------------------------------------------------------------------
(* interleave *)

\* Round r of the round robin: the r-th element of every input that has one,
\* in the order of the inputs from the k-th on.
RECURSIVE Round(_, _)
Round(r, k) ==
    IF k > Len(Inputs) THEN <<>>
    ELSE (IF r <= Len(Inputs[k]) THEN <<Inputs[k][r]>> ELSE <<>>) \o Round(r, k + 1)

RECURSIVE RoundRobin(_)
RoundRobin(r) ==
    IF \A k \in 1..Len(Inputs) : Len(Inputs[k]) < r
    THEN <<>>
    ELSE Round(r, 1) \o RoundRobin(r + 1)

RECURSIVE TotalLen(_)
TotalLen(k) == IF k > Len(Inputs) THEN 0 ELSE Len(Inputs[k]) + TotalLen(k + 1)

\* The elements of out that come from the k-th input.
FromInput(out, k) ==
    LET ofK(e) == e \div 10 = k - 1
    IN  SelectSeq(out, ofK)

\* C8: interleave yields round robin: in every round one element of each
\* input not yet exhausted, in the order receiver, iters[0], iters[1], ...,
\* an exhausted input dropped without the one after it being skipped.  For
\* finite inputs the output holds every element of every input exactly once,
\* each input in its own order, its length is the sum of the input lengths,
\* and the traversal ends: the next() after the last element stops.
C8_InterleaveRoundRobin ==
    op = "interleave" =>
        \A c \in Cursors :
            LET out == cur[c].out
            IN  /\ IsPrefix(out, RoundRobin(1))
                /\ Len(out) <= TotalLen(1)
                /\ (cur[c].status = "suspended" /\ Len(out) = TotalLen(1))
                      => ~InterleaveGen("suspended", cur[c].loc).yield
                /\ cur[c].status = "done" =>
                      /\ out = RoundRobin(1)
                      /\ Len(out) = TotalLen(1)
                      /\ \A k \in 1..Len(Inputs) : FromInput(out, k) = Inputs[k]

\* Three inputs of lengths 1, 3 and 2 have been interleaved to the end: the
\* receiver is found exhausted at the head of round 2, iters[1] in round 3.
C8_Witness ==
    /\ op = "interleave"
    /\ cur[1].status = "done"
    /\ Len(source) = 1
    /\ Len(iters) = 2
    /\ Len(iters[1]) = 3
    /\ Len(iters[2]) = 2
    /\ cur[1].out = <<1, 11, 21, 12, 22, 13>>

----------------------------------------------------------------------------
(* flatten / flatten2 *)

\* Left to right, depth first: an element for which selector returns None
\* stands for itself, any other for the flattening of its nested iterable.
RECURSIVE FlatSeq(_)
FlatSeq(xs) ==
    IF xs = <<>> THEN <<>>
    ELSE (IF Head(xs) \in selector
          THEN FlatSeq(children[Head(xs)])
          ELSE <<Head(xs)>>) \o FlatSeq(Tail(xs))

\* C9: flatten2 yields, left to right and depth first, exactly the elements
\* for which selector returns None; an element with a nested iterable is not
\* yielded but replaced by the flattening of that iterable, after which the
\* enclosing iterable resumes at the next element: nothing is lost or
\* repeated at any depth.
C9_FlattenDepthFirst ==
    op \in {"flatten", "flatten2"} =>
        \A c \in Cursors :
            LET out == cur[c].out
            IN  /\ IsPrefix(out, FlatSeq(source))
                /\ \A i \in 1..Len(out) : out[i] \notin selector
                /\ \A i, j \in 1..Len(out) : i # j => out[i] # out[j]
                /\ cur[c].status = "done" => out = FlatSeq(source)

\* A structure nested two deep, the inner iterable followed in the outer one
\* by an element that is yielded after it, has been flattened to the end.
C9_Witness ==
    /\ op = "flatten2"
    /\ cur[1].status = "done"
    /\ \E x \in selector : \E y \in selector :
          /\ x \in Range(source)
          /\ Len(children[x]) = 2
          /\ children[x][1] = y
          /\ children[y] = <<>>
          /\ children[x][2] \notin selector
          /\ cur[1].out = <<children[x][2]>>

----------------------------------------------------------------------------
(* aggregate_right *)

\* C5: aggregate_right with func alone on an empty source raises the
\* empty-sequence fault, without calling func and without returning a value;
\* the forms with a seed never raise it, and on an empty source return the
\* seed (through result_selector).
C5_EmptyWithoutSeedRaises ==
    ret.status # "not_called" =>
        /\ (nargs = 1 /\ source = <<>>) =>
              /\ ret.status = "raised"
              /\ ret.fault = "empty_sequence"
              /\ funcCalls = <<>>
        /\ nargs \in {2, 3} =>
              /\ ret.status = "returned"
              /\ ret.fault = "none"
              /\ source = <<>> => ret.value = ResultSelector(Seed) /\ funcCalls = <<>>

\* aggregate_right(func) has been called on an empty source.
C5_Witness ==
    /\ op = "aggregate_right"
    /\ nargs = 1
    /\ source = <<>>
    /\ ret.status = "raised"

\* func(e1, func(e2, ... func(en, z))) for xs = e1 .. en.
RECURSIVE FoldRight(_, _)
FoldRight(xs, z) ==
    IF xs = <<>> THEN z ELSE Func(<<Head(xs)>>, FoldRight(Tail(xs), z))

\* C10: aggregate_right is a right fold.  With a seed it returns
\* result_selector(func(e0, func(e1, ... func(e(n-1), seed)))) and calls func
\* n times, the element first and the accumulator second, from the last
\* element to the first.  Without a seed on a non-empty source e(n-1) is the
\* first accumulator and func is called n-1 times; a one-element source gives
\* that element with no call of func.
C10_RightFold ==
    ret.status = "returned" =>
        LET n     == Len(source)
            elems == IF nargs = 1 THEN Front(source) ELSE source
            z     == IF nargs = 1 THEN <<source[n]>> ELSE Seed
            m     == Len(elems)
        IN  /\ ret.value = ResultSelector(FoldRight(elems, z))
            /\ Len(funcCalls) = m
            /\ m = IF nargs = 1 THEN n - 1 ELSE n
            /\ \A i \in 1..m :
                  /\ funcCalls[i].elem = <<elems[m - i + 1]>>
                  /\ funcCalls[i].acc = FoldRight(SubSeq(elems, m - i + 2, m), z)
            /\ (nargs = 1 /\ n = 1) =>
                  ret.value = <<source[1]>> /\ funcCalls = <<>>

\* aggregate_right(seed, func, result_selector) has returned on [1, 2, 3].
C10_Witness ==
    /\ op = "aggregate_right"
    /\ nargs = 3
    /\ source = <<1, 2, 3>>
    /\ ret.status = "returned"
    /\ ret.value = <<-2, -1, 1, -1, 2, -1, 3, 0>>
    /\ Len(funcCalls) = 3

----------------------------------------------------------------------------
(* CachedEnumerable *)

\* C3: the traversals of a CachedEnumerable over a source of M elements,
\* advanced by threads of control in any interleaving, each observe the M
\* elements of the source in order; position i of the buffer holds the i-th
\* element the source produced, which it produced once; and once every
\* traversal has ended the source has produced exactly M elements.
C3_CachedPullsOnce ==
    op = "as_cached" =>
        /\ \A r \in Readers :
              /\ IsPrefix(reader[r].out, source)
              /\ Len(reader[r].out) = reader[r].pos
              /\ reader[r].pc = "done" => reader[r].out = source
        /\ produced <= Len(source)
        /\ Len(buffer) = produced
        /\ IsPrefix(buffer, source)
        /\ (\A r \in Readers : reader[r].pc = "done") => produced = Len(source)

\* Every reader has traversed a source of two elements or more to its end.
C3_Witness ==
    /\ op = "as_cached"
    /\ Len(source) >= 2
    /\ \A r \in Readers : reader[r].pc = "done" /\ reader[r].out = source
    /\ produced = Len(source)

====
